---- MODULE Spec2Model ----
(***************************************************************************)
(* Byzantium: compile-time type assertions (src/index.ts).                 *)
(*                                                                         *)
(* The library is a set of TypeScript type aliases, evaluated by the type  *)
(* checker.  A type is modelled as the set of its union members (atoms):   *)
(* the empty set is `never`, a singleton is a non-union type.  An atom is  *)
(* a record of one fixed shape:                                            *)
(*   k  kind            n  name of a primitive, literal or unique symbol   *)
(*   p  properties of an object type, a set of <<key, Type>>               *)
(*   s  element types of a tuple / parameter types of a callable           *)
(*   x  first type argument (Map/WeakMap key, Set/Array element)           *)
(*   y  second type argument (Map/WeakMap value, callable's return type)   *)
(* Each alias of the source is an operator computed the way the checker    *)
(* evaluates it: a conditional type whose checked type is a naked type     *)
(* parameter distributes over the union members (DCond), any other         *)
(* conditional type is decided once on the whole checked type (Cond).      *)
(***************************************************************************)
EXTENDS Integers, Sequences, FiniteSets

VARIABLES op, args, result
vars == <<op, args, result>>

(* ---------------------------- atoms ------------------------------------ *)
Mk(k, n, p, s, x, y) == [k |-> k, n |-> n, p |-> p, s |-> s, x |-> x, y |-> y]
Unique(n) == Mk("unique", n, {}, <<>>, {}, {})
Prim(n) == Mk("prim", n, {}, <<>>, {}, {})
StrLit(n) == Mk("strlit", n, {}, <<>>, {}, {})
NumLit(n) == Mk("numlit", n, {}, <<>>, {}, {})
AnyAtom == Mk("any", "any", {}, <<>>, {}, {})
Unknown == Mk("unknown", "unknown", {}, <<>>, {}, {})
Obj(p) == Mk("object", "", p, <<>>, {}, {})
MapOf(K, V) == Mk("Map", "", {}, <<>>, K, V)
WeakMapOf(K, V) == Mk("WeakMap", "", {}, <<>>, K, V)
SetOf(E) == Mk("Set", "", {}, <<>>, E, {})
ArrayOf(E) == Mk("Array", "", {}, <<>>, E, {})
TupleOf(s) == Mk("tuple", "", {}, s, {}, {})
Funct(s, r) == Mk("function", "", {}, s, {}, r)
Ctor(s, r) == Mk("constructor", "", {}, s, {}, r)

TsNever == {}
TsAny == {AnyAtom}
TsString == {Prim("string")}
TsNumber == {Prim("number")}
TsSymbol == {Prim("symbol")}
(* boolean is true | false; both members behave alike wherever the source *)
(* tests them, so the pair is kept as one atom                            *)
TsBoolean == {Prim("boolean")}
TsUnknown == {Unknown}
Lit(n) == {StrLit(n)}

(* Is.Fail, Is.Success, Is.Nothing: three distinct unique symbols *)
Fail == {Unique("Fail")}
Success == {Unique("Success")}
Nothing == {Unique("Nothing")}
Attempt == Success \cup Fail

(* ------------------------ assignability -------------------------------- *)
(* `S extends T` for types without type parameters.  A union is assignable *)
(* when each member is; `any` is assignable both ways; a literal or unique *)
(* symbol is assignable to its primitive; object types are compared by     *)
(* their properties (a source may have more); every type is assignable to  *)
(* `unknown`, which is assignable to nothing else, not to {} either.  The   *)
(* collection interfaces                                                   *)
(* are compared by their members: Map and Set also return their arguments  *)
(* (keys(), values(), forEach), so they are covariant; WeakMap only takes  *)
(* its key as a method parameter, and method parameters are compared both  *)
(* ways, so two WeakMap key types need only be related in one direction;   *)
(* a Map has every member of a WeakMap, a WeakMap lacks clear, forEach and *)
(* size of a Map.                                                          *)
RECURSIVE AtomSub(_, _)
TypeSub(S, T) == \A a \in S : \E b \in T : AtomSub(a, b)
AtomSub(a, b) ==
    IF a.k = "any" \/ b.k = "any" THEN TRUE
    ELSE IF a = b \/ b.k = "unknown" THEN TRUE
    ELSE IF a.k = "unknown" THEN FALSE
    ELSE CASE b.k = "prim" ->
                 \/ a.k = "strlit" /\ b.n = "string"
                 \/ a.k = "numlit" /\ b.n = "number"
                 \/ a.k = "unique" /\ b.n = "symbol"
           [] b.k = "object" ->
                 \/ b.p = {}
                 \/ /\ a.k = "object"
                    /\ \A q \in b.p : \E r \in a.p :
                          r[1] = q[1] /\ TypeSub(r[2], q[2])
           [] b.k = "Map" ->
                 a.k = "Map" /\ TypeSub(a.x, b.x) /\ TypeSub(a.y, b.y)
           [] b.k = "Set" ->
                 a.k = "Set" /\ TypeSub(a.x, b.x)
           [] b.k = "WeakMap" ->
                 /\ a.k \in {"Map", "WeakMap"}
                 /\ TypeSub(a.x, b.x) \/ TypeSub(b.x, a.x)
                 /\ TypeSub(a.y, b.y)
           [] b.k = "Array" ->
                 \/ a.k = "Array" /\ TypeSub(a.x, b.x)
                 \/ a.k = "tuple" /\ \A i \in DOMAIN a.s : TypeSub(a.s[i], b.x)
           [] b.k = "tuple" ->
                 /\ a.k = "tuple"
                 /\ Len(a.s) = Len(b.s)
                 /\ \A i \in DOMAIN a.s : TypeSub(a.s[i], b.s[i])
           [] OTHER -> FALSE

(* union: `any` absorbs every member, a primitive absorbs its literals *)
Absorbed(a, T) == \E b \in T : b # a /\ b.k = "prim" /\ AtomSub(a, b)
Union(A, B) ==
    IF AnyAtom \in A \cup B THEN TsAny
    ELSE {a \in A \cup B : ~Absorbed(a, A \cup B)}

(* intersection: distributes over the members; two different unit types   *)
(* (unique symbols, literals) or primitives have no common value          *)
AtomMeet(a, b) ==
    IF a.k = "any" \/ b.k = "any" THEN TsAny
    ELSE IF AtomSub(a, b) THEN {a}
    ELSE IF AtomSub(b, a) THEN {b}
    ELSE IF a.k = "object" /\ b.k = "object" THEN {Obj(a.p \cup b.p)}
    ELSE TsNever
Meet(A, B) == UNION {AtomMeet(a, b) : a \in A, b \in B}

(* Conditional types.  Cond: `check extends ext ? T : F` where check is   *)
(* not a naked type parameter.  DCond: check is a naked type parameter,    *)
(* the type distributes over its members; T[c] and F[c] are the branches   *)
(* with the parameter bound to the member c.  A checked type `any` gives   *)
(* the union of both branches; `never` is assignable to every type, so     *)
(* Cond takes the true branch on it while DCond, having no member, is      *)
(* never.                                                                  *)
Cond(check, ext, T, F) ==
    IF check = TsAny /\ ext # TsAny THEN Union(T, F)
    ELSE IF TypeSub(check, ext) THEN T ELSE F
DCond(check, ext, T, F) ==
    LET part(c) == IF c = AnyAtom /\ ext # TsAny THEN Union(T[c], F[c])
                   ELSE IF TypeSub({c}, ext) THEN T[c] ELSE F[c]
        parts == UNION {part(c) : c \in check}
    IN  Union(parts, parts)

(* ------------------- members of the object kinds ----------------------- *)
(* keys declared with `unique symbol` are symbols, every other key a string *)
SymbolKeys == {"Reason", "Data", "Symbol.iterator", "Symbol.toStringTag"}
KeyAtom(name) == IF name \in SymbolKeys THEN Unique(name) ELSE StrLit(name)
Method(a, name) == Mk("method", name, {}, <<>>, a.x, a.y)
MapMembers == {"clear", "delete", "forEach", "get", "has", "set",
               "entries", "keys", "values", "Symbol.iterator"}
SetMembers == {"add", "clear", "delete", "forEach", "has",
               "entries", "keys", "values", "Symbol.iterator"}
WeakMapMembers == {"delete", "get", "has", "set"}
ArrayMembers == {"push", "pop", "concat", "join", "slice", "indexOf",
                 "forEach", "map", "filter", "Symbol.iterator"}
Elements(a) == IF a.k = "tuple" THEN UNION {a.s[i] : i \in DOMAIN a.s} ELSE a.x
Props(a) ==
    CASE a.k = "object" -> {<<KeyAtom(q[1]), q[2]>> : q \in a.p}
      [] a.k = "Map" ->
            {<<KeyAtom(m), {Method(a, m)}>> : m \in MapMembers}
               \cup {<<StrLit("size"), TsNumber>>,
                     <<Unique("Symbol.toStringTag"), TsString>>}
      [] a.k = "Set" ->
            {<<KeyAtom(m), {Method(a, m)}>> : m \in SetMembers}
               \cup {<<StrLit("size"), TsNumber>>,
                     <<Unique("Symbol.toStringTag"), TsString>>}
      [] a.k = "WeakMap" ->
            {<<KeyAtom(m), {Method(a, m)}>> : m \in WeakMapMembers}
               \cup {<<Unique("Symbol.toStringTag"), TsString>>}
      [] a.k = "Array" ->
            {<<KeyAtom(m), {Method(a, m)}>> : m \in ArrayMembers}
               \cup {<<Prim("number"), Elements(a)>>,
                     <<StrLit("length"), TsNumber>>}
      [] a.k = "tuple" ->
            {<<KeyAtom(m), {Method(a, m)}>> : m \in ArrayMembers}
               \cup {<<Prim("number"), Elements(a)>>,
                     <<StrLit("length"), {NumLit(Len(a.s))}>>}
      [] a.k \in {"function", "constructor", "method"} -> {}
KeyOf(a) == {q[1] : q \in Props(a)}
(* keyof T: the keys common to every member; keyof never is every key *)
KeyOfT(T) ==
    IF T = TsNever \/ T = TsAny THEN TsString \cup TsNumber \cup TsSymbol
    ELSE {k \in UNION {KeyOf(a) : a \in T} : \A a \in T : k \in KeyOf(a)}
Index(a, k) == UNION {q[2] : q \in {r \in Props(a) : AtomSub(k, r[1])}}
(* T[K] *)
IndexT(T, K) == UNION {Index(a, k) : a \in T, k \in K}
TsObject == {Obj({})}
(* the kinds assignable to `object`: every type that is not a primitive *)
ObjectKinds == {"object", "Map", "Set", "WeakMap", "Array", "tuple",
                "function", "constructor", "method"}

(* --------------------------- the library ------------------------------- *)
Exception(Message, Data) == {Obj({<<"Reason", Message>>, <<"Data", Data>>})}

(* Assert failing on every Test that is not Is.Success *)
AssertUnlessSuccess(Test, Message, OnSuccess, Data) ==
    DCond(Test, Success, [c \in Test |-> OnSuccess],
                         [c \in Test |-> Exception(Message, Data)])
AssertT(Test, Message, OnSuccess, Data) ==
    DCond(Test, Fail, [c \in Test |-> Exception(Message, Data)],
                      [c \in Test |-> OnSuccess])

Arguments(T) ==
    UNION {IF a.k \in {"function", "constructor"} THEN {TupleOf(a.s)} ELSE TsNever
              : a \in T}
Return(T) ==
    UNION {IF a.k \in {"function", "constructor"} THEN a.y ELSE TsNever : a \in T}

(* Is.Not with its two branches exchanged *)
NotSwapped(X) == DCond(X, Fail, [c \in X |-> Fail], [c \in X |-> Success])
Not(X) == DCond(X, Fail, [c \in X |-> Success], [c \in X |-> Fail])

(* And written over the union of its operands, as Or is *)
AndOverUnion(A, B) == Cond(Union(A, B), Fail, Fail, Success)
And(A, B) == Cond(Meet(A, B), Fail, Fail, Success)
Or(A, B) == Cond(Union(A, B), Fail, Fail, Success)
Nor(A, B) == Not(Or(A, B))
Nand(A, B) == Not(And(A, B))

If(Condition, OnTrue, OnFalse) ==
    DCond(Condition, Fail, [c \in Condition |-> OnFalse],
                           [c \in Condition |-> OnTrue])

(* Is testing one direction only: Actual extends Expected *)
IsOneWay(Actual, Expected) == Cond(Actual, Expected, Success, Fail)
Is(Actual, Expected) ==
    Cond({TupleOf(<<Expected, Actual>>)}, {TupleOf(<<Actual, Expected>>)},
         Success, Fail)

Type(SubClass, SuperClass) ==
    DCond(SubClass, SuperClass, [c \in SubClass |-> Success],
                                [c \in SubClass |-> Fail])

To(Target, T) == DCond(T, Target, [c \in T |-> {c}], [c \in T |-> TsNever])
ToNumber(T) == To(TsNumber, T)

(* Get.Member without the test of the key: the value of every case *)
MemberOfAnyKey(Parent, Key) == IndexT(Parent, KeyOfT(Parent))
Member(Parent, Key) ==
    DCond(Key, KeyOfT(Parent), [k \in Key |-> IndexT(Parent, {k})],
                               [k \in Key |-> Fail])

(* Template literal types: one string per combination of the members of  *)
(* the interpolated types, none when an interpolated type is never        *)
ArrayName(U) == {StrLit("Array<" \o u.n \o ">") : u \in U}
(* the template with its two interpolations exchanged *)
RecordNameSwapped(K, V) ==
    {StrLit("Record<" \o v.n \o ", " \o k.n \o ">") : k \in K, v \in V}
RecordName(K, V) ==
    {StrLit("Record<" \o k.n \o ", " \o v.n \o ">") : k \in K, v \in V}

(* Get.TypeString distributes over the members of T; the chain of tests   *)
(* is taken in the order of the source.  T is not `any`.                  *)
RECURSIVE TypeString(_)
TypeString(T) ==
    LET name(c) ==
            CASE c.k # "any" ->
                 IF TypeSub({c}, TsString) THEN Lit("string")
                 ELSE IF TypeSub({c}, TsNumber) THEN Lit("number")
                 ELSE IF TypeSub({c}, TsBoolean) THEN Lit("boolean")
                 ELSE IF TypeSub({c}, TsSymbol) THEN Lit("symbol")
                 ELSE IF TypeSub({c}, {ArrayOf(TsAny)})
                      THEN ArrayName(TypeString(Elements(c)))
                 ELSE IF c.k \in ObjectKinds
                      THEN RecordName(TypeString(KeyOfT({c})),
                                      TypeString(IndexT({c}, KeyOfT({c}))))
                 ELSE Lit("Is.Fail")
    IN  UNION {name(c) : c \in T}

On(Parent, Key) ==
    LET inWeak(m, p) ==
            DCond({p}, {WeakMapOf({m}, TsAny)}, [q \in {p} |-> Success],
                                                [q \in {p} |-> Fail])
        obj(m, p) ==
            DCond({m}, TsObject, [q \in {m} |-> inWeak(q, p)],
                                 [q \in {m} |-> Fail])
        map(m) ==
            DCond(Parent, {MapOf({m}, TsAny)}, [p \in Parent |-> Success],
                                               [p \in Parent |-> obj(m, p)])
    IN  DCond(Key, KeyOfT(Parent), [m \in Key |-> Success],
                                   [m \in Key |-> map(m)])

Switch(Test, Cases) == If(On(Cases, Test), Member(Cases, Test), Fail)

In(Parent, Elem) ==
    LET coll(m) ==
            DCond(Parent, {MapOf(TsAny, {m}), ArrayOf({m}), SetOf({m}),
                           WeakMapOf(TsAny, {m})},
                  [p \in Parent |-> Success], [p \in Parent |-> Fail])
    IN  Cond(Type(Parent, {MapOf(TsAny, TsAny), SetOf(TsAny),
                           WeakMapOf(TsAny, TsAny)}),
             Fail,
             DCond(Elem, IndexT(Parent, KeyOfT(Parent)),
                   [m \in Elem |-> Success], [m \in Elem |-> coll(m)]),
             Fail)

For(F, Args) ==
    DCond(Args, {ArrayOf(TsAny)},
          [c \in Args |-> Type({c}, Arguments(F))],
          [c \in Args |-> Type({TupleOf(<<{c}>>)}, Arguments(F))])
From(F, Ret) == Type(Ret, Return(F))

RECURSIVE All(_)
All(Attempts) ==
    LET rest(a) ==
            DCond({TupleOf(Tail(a.s))}, {ArrayOf(Attempt)},
                  [c \in {TupleOf(Tail(a.s))} |-> And(a.s[1], All({c}))],
                  [c \in {TupleOf(Tail(a.s))} |->
                      And(a.s[1], All({TupleOf(<<>>)}))])
        one(a) == IF a.k = "tuple" /\ Len(a.s) >= 1
                  THEN rest(a)
                  ELSE IndexT({a}, ToNumber(KeyOfT({a})))
    IN  UNION {one(a) : a \in Attempts}

Any(Attempts) ==
    LET rest(a) ==
            DCond({TupleOf(Tail(a.s))}, {ArrayOf(Attempt)},
                  [c \in {TupleOf(Tail(a.s))} |-> Or(a.s[1], All({c}))],
                  [c \in {TupleOf(Tail(a.s))} |->
                      Or(a.s[1], All({TupleOf(<<>>)}))])
        one(a) == IF a.k = "tuple" /\ Len(a.s) >= 1
                  THEN rest(a)
                  ELSE IndexT({a}, ToNumber(KeyOfT({a})))
    IN  UNION {one(a) : a \in Attempts}

None(Attempts) == Not(All(Attempts))
Neither(Attempts) == Not(Any(Attempts))

(* --------------------------- inputs ------------------------------------ *)
MaxLen == 3

Outcomes == {Success, Fail}
TagTypes == {Success, Fail, Attempt, TsNever, TsAny, TsString, Nothing}

UserT == {Obj({<<"id", TsString>>, <<"name", TsString>>})}
IdT == {Obj({<<"id", TsString>>})}
LoginT == {Obj({<<"username", TsString>>, <<"password", TsString>>})}
BadLoginT == {Obj({<<"username", TsNumber>>, <<"password", TsString>>})}
StringOrNumber == TsString \cup TsNumber

Messages == {Lit("m1"), Lit("m2"), Fail}
Payloads == {Nothing, TsNumber}
TestTypes == TagTypes \cup {UserT} \cup {Exception(m, Nothing) : m \in Messages}
SuccessTypes == {TsString, UserT}

(* tuples of at most MaxLen results of type checks (Is.Attempt[]) *)
ListElems == {Success, Fail, Attempt}
Lists == UNION {[1..n -> ListElems] : n \in 0..MaxLen}

AdminT == Lit("AdminResponse")
RoleCases == {Obj({<<"admin", AdminT>>, <<"user", Lit("UserResponse")>>,
                   <<"guest", Lit("GuestResponse")>>})}
CaseTypes == {RoleCases, {Obj({<<"admin", AdminT>>})},
              {MapOf(Lit("admin"), AdminT)}, {MapOf(TsString, AdminT)}}
Discriminants == {Lit("admin"), Lit("user"), Lit("guest"), Lit("superadmin"),
                  Lit("get"), TsString, Lit("admin") \cup Lit("user"),
                  Lit("admin") \cup Lit("superadmin"), TsNever}

ParentTypes == {UserT, {MapOf(TsString, TsNumber)}, {MapOf(Lit("id"), TsNumber)},
                {WeakMapOf(UserT, TsNumber)}, {SetOf(TsString)},
                {ArrayOf(TsString)}, {ArrayOf(Lit("id"))}}
KeyTypes == {Lit("id"), Lit("email"), Lit("get"), Lit("length"), TsString,
             TsNumber, UserT, IdT, Lit("id") \cup Lit("email"), TsNever}
ElemTypes == {TsString, Lit("id"), TsNumber, {NumLit(1)}, UserT, Success,
              StringOrNumber, TsNever}

Callables == {{Funct(<<TsString>>, TsNumber)},
              {Funct(<<TsString, TsNumber>>, TsString)},
              {Funct(<<StringOrNumber>>, TsString)},
              {Funct(<<>>, TsString)},
              {Ctor(<<TsString>>, UserT)}}
ArgTypes == {TsString, Lit("id"), TsNumber, StringOrNumber, TsNever, TsAny,
             {TupleOf(<<>>)}, {TupleOf(<<TsString>>)},
             {TupleOf(<<StringOrNumber>>)}, {TupleOf(<<TsString, TsNumber>>)},
             {ArrayOf(TsString)}}

(* the object type of the test of Get.TypeString *)
MixedT == {Obj({<<"a", {NumLit(1)}>>, <<"b", Lit("2")>>})}
Subjects == {TsString, Lit("id"), TsNumber, {NumLit(3)}, TsBoolean, TsSymbol,
             Fail, StringOrNumber, TsUnknown, TsNever,
             {ArrayOf(TsString)}, {ArrayOf(StringOrNumber)}, {ArrayOf(UserT)},
             {TupleOf(<<TsString, TsNumber>>)}, {TupleOf(<<>>)},
             MixedT, UserT, TsObject, Exception(Lit("m1"), Nothing),
             {Obj({<<"tags", {ArrayOf(TsString)}>>})},
             {Obj({<<"id", TsNumber>>, <<"run", {Funct(<<>>, TsString)}>>})},
             {Funct(<<TsString>>, TsNumber)}, {MapOf(TsString, TsNumber)},
             UserT \cup TsString}

PlainTypes == {TsString, Lit("id"), TsNumber, StringOrNumber, TsNever, TsAny,
               UserT, IdT, LoginT, BadLoginT, Success, Fail}

(* --------------------------- state machine ----------------------------- *)
(* A behaviour is one instantiation of an alias of the library: the type   *)
(* checker is handed the alias and its type arguments and the state keeps  *)
(* the type it evaluates to.  Is.Not may then be applied to the result of  *)
(* an Is.Not, and Assert to the result of an Assert.                       *)
Init == op = "none" /\ args = <<>> /\ result = TsNever

EvalAssert ==
    /\ op = "none"
    /\ \E Test \in TestTypes, Message \in Messages, Data \in Payloads :
         \E OnSuccess \in {Test} \cup SuccessTypes :
            /\ op' = "Assert"
            /\ args' = <<Test, Message, OnSuccess, Data>>
            /\ result' = AssertT(Test, Message, OnSuccess, Data)

(* Assert<Assert<Test, M1>, M2>: both with the default OnSuccess (the   *)
(* Test itself) and the default Data (Is.Nothing)                       *)
EvalAssertAssert ==
    /\ op = "Assert"
    /\ args[3] = args[1]
    /\ args[4] = Nothing
    /\ \E M2 \in Messages :
         /\ op' = "Assert.Assert"
         /\ args' = <<args[1], args[2], M2, result>>
         /\ result' = AssertT(result, M2, result, Nothing)

EvalNot ==
    /\ op = "none"
    /\ \E X \in TagTypes :
         op' = "Not" /\ args' = <<X>> /\ result' = Not(X)

EvalNotNot ==
    /\ op = "Not"
    /\ op' = "Not.Not" /\ args' = args /\ result' = Not(result)

EvalAnd ==
    /\ op = "none"
    /\ \E A \in TagTypes, B \in TagTypes :
         op' = "And" /\ args' = <<A, B>> /\ result' = And(A, B)

EvalOr ==
    /\ op = "none"
    /\ \E A \in TagTypes, B \in TagTypes :
         op' = "Or" /\ args' = <<A, B>> /\ result' = Or(A, B)

EvalNand ==
    /\ op = "none"
    /\ \E A \in TagTypes, B \in TagTypes :
         op' = "Nand" /\ args' = <<A, B>> /\ result' = Nand(A, B)

EvalNor ==
    /\ op = "none"
    /\ \E A \in TagTypes, B \in TagTypes :
         op' = "Nor" /\ args' = <<A, B>> /\ result' = Nor(A, B)

EvalIf ==
    /\ op = "none"
    /\ \E C \in TagTypes, T \in SuccessTypes, F \in {Fail, TsNumber} :
         op' = "If" /\ args' = <<C, T, F>> /\ result' = If(C, T, F)

EvalSwitch ==
    /\ op = "none"
    /\ \E Test \in Discriminants, Cases \in CaseTypes :
         op' = "Switch" /\ args' = <<Test, Cases>> /\ result' = Switch(Test, Cases)

EvalMember ==
    /\ op = "none"
    /\ \E Parent \in CaseTypes, Key \in Discriminants :
         op' = "Member" /\ args' = <<Parent, Key>> /\ result' = Member(Parent, Key)

EvalIs ==
    /\ op = "none"
    /\ \E A \in PlainTypes, B \in PlainTypes :
         op' = "Is" /\ args' = <<A, B>> /\ result' = Is(A, B)

EvalType ==
    /\ op = "none"
    /\ \E A \in PlainTypes, B \in PlainTypes :
         op' = "Type" /\ args' = <<A, B>> /\ result' = Type(A, B)

EvalTypeString ==
    /\ op = "none"
    /\ \E T \in Subjects :
         op' = "TypeString" /\ args' = <<T>> /\ result' = TypeString(T)

EvalOn ==
    /\ op = "none"
    /\ \E Parent \in ParentTypes, Key \in KeyTypes :
         op' = "On" /\ args' = <<Parent, Key>> /\ result' = On(Parent, Key)

EvalIn ==
    /\ op = "none"
    /\ \E Parent \in ParentTypes, Elem \in ElemTypes :
         op' = "In" /\ args' = <<Parent, Elem>> /\ result' = In(Parent, Elem)

EvalFor ==
    /\ op = "none"
    /\ \E F \in Callables, A \in ArgTypes :
         op' = "For" /\ args' = <<F, A>> /\ result' = For(F, A)

EvalFrom ==
    /\ op = "none"
    /\ \E F \in Callables, R \in PlainTypes :
         op' = "From" /\ args' = <<F, R>> /\ result' = From(F, R)

EvalAll ==
    /\ op = "none"
    /\ \E L \in Lists :
         op' = "All" /\ args' = <<{TupleOf(L)}>> /\ result' = All({TupleOf(L)})

EvalAny ==
    /\ op = "none"
    /\ \E L \in Lists :
         op' = "Any" /\ args' = <<{TupleOf(L)}>> /\ result' = Any({TupleOf(L)})

EvalNone ==
    /\ op = "none"
    /\ \E L \in Lists :
         op' = "None" /\ args' = <<{TupleOf(L)}>> /\ result' = None({TupleOf(L)})

EvalNeither ==
    /\ op = "none"
    /\ \E L \in Lists :
         op' = "Neither" /\ args' = <<{TupleOf(L)}>>
                         /\ result' = Neither({TupleOf(L)})

Next ==
    \/ EvalAssert \/ EvalAssertAssert \/ EvalNot \/ EvalNotNot
    \/ EvalAnd \/ EvalOr \/ EvalNand \/ EvalNor
    \/ EvalIf \/ EvalSwitch \/ EvalMember \/ EvalTypeString
    \/ EvalIs \/ EvalType \/ EvalOn \/ EvalIn \/ EvalFor \/ EvalFrom
    \/ EvalAll \/ EvalAny \/ EvalNone \/ EvalNeither

Spec == Init /\ [][Next]_vars

(* ----------------------------- properties ------------------------------ *)
Tag(b) == IF b THEN Success ELSE Fail
ListOf(T) == (CHOOSE a \in T : TRUE).s
OutcomeList(T) ==
    /\ Len(ListOf(T)) >= 1
    /\ \A i \in DOMAIN ListOf(T) : ListOf(T)[i] \in Outcomes
Single(T) == Cardinality(T) = 1 /\ T # TsAny
DeclaredKey(Parent, Key) == Key # TsNever /\ TypeSub(Key, KeyOfT(Parent))
MapKeyAccepts(Parent, Key) ==
    \E a \in Parent : a.k \in {"Map", "WeakMap"} /\ TypeSub(Key, a.x)
DeclaredValue(Parent, Key) ==
    UNION {q[2] : q \in {r \in UNION {Props(a) : a \in Parent} : r[1] \in Key}}
Associated(Parent, Key) ==
    IF DeclaredKey(Parent, Key) THEN DeclaredValue(Parent, Key)
    ELSE UNION {a.y : a \in {b \in Parent : b.k \in {"Map", "WeakMap"}}}
HasValueType(Parent, Elem) ==
    \E a \in Parent : \E q \in Props(a) : TypeSub(Elem, q[2])
DeclaredValueType(Parent, Elem) ==
    \E a \in Parent : a.k = "object" /\ \E q \in a.p : TypeSub(Elem, q[2])
CollectionAccepts(Parent, Elem) ==
    \E a \in Parent :
        \/ a.k \in {"Map", "WeakMap"} /\ TypeSub(Elem, a.y)
        \/ a.k \in {"Set", "Array"} /\ TypeSub(Elem, a.x)
IsList(T) == \E a \in T : a.k \in {"tuple", "Array"}

(* C1: Assert<Test, Message, OnSuccess, Data> is the Exception record with *)
(* exactly Message and Data when Test is Is.Fail, and exactly OnSuccess    *)
(* whenever Test is anything else.                                         *)
C1_AssertPassThrough ==
    op = "Assert" =>
        IF args[1] = Fail THEN result = Exception(args[2], args[4])
        ELSE result = args[3]

(* C2: for a non-empty list of Outcome tags Is.All is Is.Success when      *)
(* every element is Is.Success and Is.Fail when some element is Is.Fail.   *)
C2_AllIsConjunction ==
    (op = "All" /\ OutcomeList(args[1])) =>
        result = Tag(\A i \in DOMAIN ListOf(args[1]) : ListOf(args[1])[i] = Success)

(* C3: for a non-empty list of Outcome tags Is.Any is Is.Success when some *)
(* element, at any position, is Is.Success and Is.Fail when none is.       *)
C3_AnyIsDisjunction ==
    (op = "Any" /\ OutcomeList(args[1])) =>
        result = Tag(\E i \in DOMAIN ListOf(args[1]) : ListOf(args[1])[i] = Success)

(* C4 as stated: whenever Is.On<Cases, Test> succeeds, Switch<Test, Cases> *)
(* is the value type Cases associates with Test; when Test is absent from  *)
(* Cases it is Is.Fail.                                                    *)
C4_SwitchByMembership ==
    (op = "Switch" /\ Single(args[1])) =>
        /\ On(args[2], args[1]) = Success =>
               result = Associated(args[2], args[1])
        /\ ~(DeclaredKey(args[2], args[1]) \/ MapKeyAccepts(args[2], args[1])) =>
               result = Fail

(* C4 amended: when every member of a non-empty Test is a declared key of  *)
(* Cases, Switch<Test, Cases> is exactly Cases[Test]; when no member is a  *)
(* declared key it is Is.Fail, also where Is.On succeeds because Cases is  *)
(* a Map keyed by Test.                                                    *)
C4_SwitchByDeclaredKey ==
    (op = "Switch" /\ args[1] # TsNever /\ args[1] # TsAny) =>
        /\ (\A k \in args[1] : DeclaredKey(args[2], {k})) =>
               result = DeclaredValue(args[2], args[1])
        /\ (\A k \in args[1] : ~DeclaredKey(args[2], {k})) =>
               result = Fail
C4_Witness ==
    /\ op = "Switch"
    /\ args = <<Lit("admin"), RoleCases>>
    /\ result = AdminT

(* C5: every predicate and combinator evaluates to exactly one of the two  *)
(* Outcome tags: not never, not the union of both, not a third type.       *)
C5_ExactlyOneTag ==
    op \in {"Is", "Type", "On", "In", "For", "From", "Not", "And", "Or",
            "Nand", "Nor", "All", "Any", "None", "Neither"} =>
        result \in Outcomes

(* C6: on Outcome tags And, Or, Nand and Nor are the boolean operations,   *)
(* and And and Or are commutative.                                         *)
C6_BooleanAlgebra ==
    (op \in {"And", "Or", "Nand", "Nor"} /\ args[1] \in Outcomes
                                         /\ args[2] \in Outcomes) =>
        LET a == args[1] = Success
            b == args[2] = Success
        IN  /\ op = "And" => result = Tag(a /\ b) /\ result = And(args[2], args[1])
            /\ op = "Or" => result = Tag(a \/ b) /\ result = Or(args[2], args[1])
            /\ op = "Nand" => result = Tag(~(a /\ b))
            /\ op = "Nor" => result = Tag(~(a \/ b))
C6_Witness ==
    /\ op = "And"
    /\ args = <<Success, Fail>>
    /\ result = Fail

(* C7 as stated: Is.Not exchanges the two tags and Is.Not<Is.Not<X>> is X  *)
(* for every X that Is.Not accepts.                                        *)
C7_NotInvolution ==
    /\ op = "Not" => /\ args[1] = Success => result = Fail
                     /\ args[1] = Fail => result = Success
    /\ op = "Not.Not" => result = args[1]

(* C7 amended: Is.Not exchanges the two tags and Is.Not<Is.Not<X>> is X    *)
(* for every X that is an Outcome tag.                                     *)
C7_NotInvolutionOnOutcomes ==
    /\ op = "Not" => /\ args[1] = Success => result = Fail
                     /\ args[1] = Fail => result = Success
    /\ (op = "Not.Not" /\ args[1] \in Outcomes) => result = args[1]
C7_Witness ==
    /\ op = "Not.Not"
    /\ args = <<Success>>
    /\ result = Success

(* C8: Is.In<Parent, Member> is Is.Success when Member is the value type   *)
(* of a property of Parent and when Parent is a Map, Set, WeakMap or array *)
(* whose value/element type accepts Member; it is Is.Fail when Member is   *)
(* the value type of no member of Parent and no such collection accepts it *)
C8_InByValue ==
    (op = "In" /\ Single(args[2])) =>
        /\ (DeclaredValueType(args[1], args[2])
               \/ CollectionAccepts(args[1], args[2])) => result = Success
        /\ ~(HasValueType(args[1], args[2])
               \/ CollectionAccepts(args[1], args[2])) => result = Fail

(* C9: Is.On<Parent, Key> is Is.Success exactly when Key is a declared key *)
(* of Parent or Parent is a Map/WeakMap whose key type accepts Key.        *)
C9_OnByKey ==
    (op = "On" /\ Single(args[2])) =>
        result = Tag(DeclaredKey(args[1], args[2]) \/ MapKeyAccepts(args[1], args[2]))

(* C10: for an argument X that is not a list, Is.For<F, X> is Is.For<F,    *)
(* [X]>: Is.Success when [X] is assignable to F's parameter list and       *)
(* Is.Fail otherwise.                                                      *)
C10_ForSingleArgument ==
    (op = "For" /\ ~IsList(args[2]) /\ args[2] # TsNever /\ args[2] # TsAny) =>
        /\ result = For(args[1], {TupleOf(<<args[2]>>)})
        /\ result = Tag(TypeSub({TupleOf(<<args[2]>>)}, Arguments(args[1])))

IsPrimitive(c) == c.k \in {"strlit", "numlit", "unique", "prim"}
IsCallable(c) == c.k \in {"function", "constructor", "method"}
KindName(c) ==
    CASE c.k = "strlit" -> "string"
      [] c.k = "numlit" -> "number"
      [] c.k = "unique" -> "symbol"
      [] c.k = "prim" -> c.n
LeafNames(V) == {KindName(v) : v \in {w \in V : IsPrimitive(w)}}
Values(c) == UNION {q[2] : q \in Props(c)}
Flat(V) == \A v \in V : IsPrimitive(v) \/ IsCallable(v)
(* a member whose element or property types are primitives or callables *)
Shallow(c) ==
    \/ IsPrimitive(c) \/ c.k = "unknown"
    \/ c.k \in {"Array", "tuple"} /\ Flat(Elements(c))
    \/ c.k \in {"object", "Map", "function", "constructor"} /\ Flat(Values(c))
Described(c) ==
    IF IsPrimitive(c) THEN Lit(KindName(c))
    ELSE IF c.k \in {"Array", "tuple"}
         THEN {StrLit("Array<" \o e \o ">") : e \in LeafNames(Elements(c))}
    ELSE IF c.k = "unknown" THEN Lit("Is.Fail")
    ELSE {StrLit("Record<" \o k \o ", " \o v \o ">") :
              k \in LeafNames(KeyOf(c)), v \in LeafNames(Values(c))}
TypeStringExamples ==
    /\ args[1] = MixedT =>
           result = Lit("Record<string, string>") \cup Lit("Record<string, number>")
    /\ args[1] = {NumLit(3)} => result = Lit("number")
    /\ args[1] = {ArrayOf(UserT)} => result = Lit("Array<Record<string, string>>")
    /\ args[1] = {Obj({<<"tags", {ArrayOf(TsString)}>>})} =>
           result = Lit("Record<string, Array<string>>")

C13_EmptyListDefined ==
    op \in {"All", "Any"} =>
        /\ ListOf(args[1]) = <<>> => result \in Outcomes
        /\ Len(ListOf(args[1])) >= 1 =>
               LET head == ListOf(args[1])[1]
                   tail == {TupleOf(Tail(ListOf(args[1])))}
               IN  result = IF op = "All" THEN And(head, All(tail))
                                          ELSE Or(head, All(tail))

(* C14: for an Outcome tag T and messages M1, M2, with the default         *)
(* OnSuccess, Assert<Assert<T, M1>, M2> is Assert<T, M1>: Is.Success for   *)
(* Is.Success, and for Is.Fail the Exception record that carries M1, which *)
(* is not Is.Fail; M2 appears nowhere in the result.                       *)
C14_AssertIdempotent ==
    (op = "Assert.Assert" /\ args[1] \in Outcomes) =>
        /\ result = args[4]
        /\ result # Fail
        /\ args[1] = Success => result = Success
        /\ args[1] = Fail => result = Exception(args[2], Nothing)
C14_Witness ==
    /\ op = "Assert.Assert"
    /\ args = <<Fail, Lit("m1"), Lit("m2"), Exception(Lit("m1"), Nothing)>>
    /\ result = Exception(Lit("m1"), Nothing)
====
